---------------------------- MODULE Spec2Model ----------------------------
(***************************************************************************)
(* Model of src/src/utils/cssParser.ts (parseCssVariables, patchCss) and   *)
(* of the state App.tsx keeps around them.                                 *)
(*                                                                         *)
(* A text is a sequence of one-character strings.  Indices are the 0-based *)
(* indices of the source; At(s, k) is the source's s[k].  One action of    *)
(* the model is one iteration of the outer for-loop of parseCssVariables;  *)
(* the two forward sub-scans of an iteration are the recursive operators   *)
(* NameScan and ValueScan.                                                 *)
(***************************************************************************)
EXTENDS Integers, Sequences, FiniteSets, TLC

VARIABLES
    css,              \* the text being scanned (App: originalCss)
    i,                \* cursor of the outer for-loop
    currentSelector,
    braceDepth,
    inComment,
    inString,         \* Null, or the quote character that opened the string
    buffer,
    variables,        \* the CssVariable records pushed so far
    candidates,       \* the positions at which the sub-scans were run so far
    pc,               \* "scan": inside the for-loop; "done": returned;
                      \* "patched": patchCss has been applied
    modifiedValues,   \* the edits, id -> text
    patched           \* the text patchCss returned

vars == <<css, i, currentSelector, braceDepth, inComment, inString, buffer,
          variables, candidates, pc, modifiedValues, patched>>

-----------------------------------------------------------------------------
(* Bounds of the checked texts.                                            *)

MaxFrags == 4

MaxPieces == 4

MaxValueFrags == 4

MaxPatchPieces == 4

MaxRegions == 3

MaxPreludeFrags == 3
MaxNestPieces == 4
MaxNameFrags == 4
MaxHandOffPieces == 3

-----------------------------------------------------------------------------
(* JavaScript values and string primitives.                                *)

\* inString = null
Null == "null"

\* css[k] for k outside the string
Undefined == "undefined"

Quotes == {"\"", "'"}

Whitespace == {" "}

\* [a-zA-Z0-9-_] restricted to the characters the checked texts use
NameChars == {"a", "b", "1", "-", "_"}

\* s[k], 0-based
At(s, k) == IF k >= 0 /\ k < Len(s) THEN s[k + 1] ELSE Undefined

\* s.slice(a, b) for 0 <= a, 0 <= b
Slice(s, a, b) ==
    LET hi == IF b > Len(s) THEN Len(s) ELSE b
    IN  IF a >= hi THEN <<>> ELSE SubSeq(s, a + 1, hi)

RECURSIVE TrimStart(_)
TrimStart(s) ==
    IF s # <<>> /\ Head(s) \in Whitespace THEN TrimStart(Tail(s)) ELSE s

RECURSIVE TrimEnd(_)
TrimEnd(s) ==
    IF s # <<>> /\ s[Len(s)] \in Whitespace
    THEN TrimEnd(SubSeq(s, 1, Len(s) - 1))
    ELSE s

\* s.trim()
Trim(s) == TrimEnd(TrimStart(s))

\* NameMatches without the anchor at the end: /^--[a-zA-Z0-9-_]+/
NameMatchesPrefix(name) ==
    /\ Len(name) >= 3
    /\ name[1] = "-"
    /\ name[2] = "-"
    /\ name[3] \in NameChars

\* name.match(/^--[a-zA-Z0-9-_]+$/)
NameMatches(name) ==
    /\ Len(name) >= 3
    /\ name[1] = "-"
    /\ name[2] = "-"
    /\ \A k \in 3..Len(name) : name[k] \in NameChars

\* MakeId with the indices taken relative to the candidate (the indices of
\* the unused `remainder` slice)
MakeIdInRemainder(a, b) == ToString(0) \o "-" \o ToString(b - a)

\* `${a}-${b}`
MakeId(a, b) == ToString(a) \o "-" \o ToString(b)

-----------------------------------------------------------------------------
(* The forward sub-scans of one candidate.                                 *)

\* the quote handling shared by both sub-scans: the string mode after
\* reading s[k] in mode tmp
SubScanString(s, k, tmp) ==
    LET c == At(s, k)
    IN  IF c \in Quotes /\ At(s, k - 1) # "\\"
        THEN IF tmp = c THEN Null
             ELSE IF tmp = Null THEN c
             ELSE tmp
        ELSE tmp

\* the while-loop that looks for the colon, from j in string mode tmp:
\* colonIndex, or -1
RECURSIVE NameScan(_, _, _)
NameScan(s, j, tmp) ==
    IF j >= Len(s) THEN -1
    ELSE LET c == At(s, j)
             tmp2 == SubScanString(s, j, tmp)
         IN  IF c = ":" /\ tmp = Null THEN j
             ELSE IF c \in {";", "}"} /\ tmp2 = Null THEN -1
             ELSE NameScan(s, j + 1, tmp2)

\* ValueScan without the parenthesis counter: the first ';' or '}' outside
\* a string ends the value
RECURSIVE ValueScanNoParen(_, _, _, _)
ValueScanNoParen(s, k, tmp, paren) ==
    IF k >= Len(s) THEN -1
    ELSE LET c == At(s, k)
             tmp2 == SubScanString(s, k, tmp)
         IN  IF tmp2 = Null /\ c \in {";", "}"} THEN k
             ELSE ValueScanNoParen(s, k + 1, tmp2, paren)

\* ValueScan taking the end of the input for the end of the value
RECURSIVE ValueScanToEnd(_, _, _, _)
ValueScanToEnd(s, k, tmp, paren) ==
    IF k >= Len(s) THEN Len(s)
    ELSE LET c == At(s, k)
             tmp2 == SubScanString(s, k, tmp)
         IN  IF tmp2 # Null THEN ValueScanToEnd(s, k + 1, tmp2, paren)
             ELSE IF c = "(" THEN ValueScanToEnd(s, k + 1, tmp2, paren + 1)
             ELSE IF c = ")" THEN ValueScanToEnd(s, k + 1, tmp2, paren - 1)
             ELSE IF c \in {";", "}"} /\ paren = 0 THEN k
             ELSE ValueScanToEnd(s, k + 1, tmp2, paren)

\* the while-loop that looks for the end of the value, from k in string
\* mode tmp at parenthesis depth paren: valueEndIndex, or -1
RECURSIVE ValueScan(_, _, _, _)
ValueScan(s, k, tmp, paren) ==
    IF k >= Len(s) THEN -1
    ELSE LET c == At(s, k)
             tmp2 == SubScanString(s, k, tmp)
         IN  IF tmp2 # Null THEN ValueScan(s, k + 1, tmp2, paren)
             ELSE IF c = "(" THEN ValueScan(s, k + 1, tmp2, paren + 1)
             ELSE IF c = ")" THEN ValueScan(s, k + 1, tmp2, paren - 1)
             ELSE IF c \in {";", "}"} /\ paren = 0 THEN k
             ELSE ValueScan(s, k + 1, tmp2, paren)

\* the lowest value tempParenDepth takes in the value scan run from k in
\* string mode tmp at parenthesis depth paren
RECURSIVE LowestParenDepth(_, _, _, _)
LowestParenDepth(s, k, tmp, paren) ==
    IF k >= Len(s) THEN paren
    ELSE LET c == At(s, k)
             tmp2 == SubScanString(s, k, tmp)
             rest(p) == LET low == LowestParenDepth(s, k + 1, tmp2, p)
                        IN  IF low < paren THEN low ELSE paren
         IN  IF tmp2 # Null THEN rest(paren)
             ELSE IF c = "(" THEN rest(paren + 1)
             ELSE IF c = ")" THEN rest(paren - 1)
             ELSE IF c \in {";", "}"} /\ paren = 0 THEN paren
             ELSE rest(paren)

ColonIndex(s, at) == NameScan(s, at, Null)

CandidateName(s, at) == Trim(Slice(s, at, ColonIndex(s, at)))

ValueEndIndex(s, at) == ValueScan(s, ColonIndex(s, at) + 1, Null, 0)

\* the candidate at position at yields a variable: colon found, name
\* valid, value end found
IsVariable(s, at) ==
    /\ ColonIndex(s, at) > -1
    /\ NameMatches(CandidateName(s, at))
    /\ ValueEndIndex(s, at) > -1

\* NewVariable storing the value trimmed, as it is displayed
NewVariableTrimmed(s, at, sel) ==
    LET valueStartIndex == ColonIndex(s, at) + 1
        valueEndIndex == ValueEndIndex(s, at)
    IN  [ id |-> MakeId(at, valueStartIndex),
          name |-> CandidateName(s, at),
          value |-> Trim(Slice(s, valueStartIndex, valueEndIndex)),
          startIndex |-> valueStartIndex,
          endIndex |-> valueEndIndex,
          selector |-> IF sel # <<>> THEN sel ELSE <<"G","l","o","b","a","l">> ]

\* the record pushed for the candidate at position at
NewVariable(s, at, sel) ==
    LET valueStartIndex == ColonIndex(s, at) + 1
        valueEndIndex == ValueEndIndex(s, at)
    IN  [ id |-> MakeId(at, valueStartIndex),
          name |-> CandidateName(s, at),
          value |-> Slice(s, valueStartIndex, valueEndIndex),
          startIndex |-> valueStartIndex,
          endIndex |-> valueEndIndex,
          selector |-> IF sel # <<>> THEN sel ELSE <<"G","l","o","b","a","l">> ]

\* AdvanceTo leaving the cursor on the terminator whatever it is: a '}' is
\* consumed like a ';'
AdvanceToTerminator(s, valueEndIndex) == valueEndIndex

\* the value of i the iteration leaves behind (the loop's i++ follows)
AdvanceTo(s, valueEndIndex) ==
    IF At(s, valueEndIndex) = "}" THEN valueEndIndex - 1 ELSE valueEndIndex

\* NextIndex without the jump: the cursor is left on the candidate
NextIndexNoJump(s, at) == at + 1

\* NextIndex putting the cursor back on the candidate
NextIndexRescan(s, at) == at

\* the cursor of the iteration that follows a pushed variable
NextIndex(s, at) == AdvanceTo(s, ValueEndIndex(s, at)) + 1

\* Push putting the record first (unshift)
PushFront(vs, v) == <<v>> \o vs

\* variables.push(v)
Push(vs, v) == Append(vs, v)

-----------------------------------------------------------------------------
(* patchCss.                                                               *)

\* {}
EmptyRecord == [id \in {} |-> <<>>]

\* `${undefined}`
UndefinedText == <<"u", "n", "d", "e", "f", "i", "n", "e", "d">>

\* the text modifiedValues[id] contributes to a concatenation
EditText(edits, id) == IF id \in DOMAIN edits THEN edits[id] ELSE UndefinedText

\* ShouldPatch without the test against undefined
ShouldPatchAnyKey(v, edits) == EditText(edits, v.id) # v.value

\* modifiedValues[v.id] !== undefined && modifiedValues[v.id] !== v.value
ShouldPatch(v, edits) == v.id \in DOMAIN edits /\ edits[v.id] # v.value

\* one step of the stable sort: v put behind the records that start at or
\* after it
RECURSIVE InsertDescending(_, _)
InsertDescending(sorted, v) ==
    IF sorted = <<>> THEN <<v>>
    ELSE IF Head(sorted).startIndex >= v.startIndex
         THEN <<Head(sorted)>> \o InsertDescending(Tail(sorted), v)
         ELSE <<v>> \o sorted

RECURSIVE SortDescending(_, _)
SortDescending(vs, n) ==
    IF n = 0 THEN <<>>
    ELSE InsertDescending(SortDescending(vs, n - 1), vs[n])

\* SortedVars without the sort: the records in the order given
SortedVarsAsGiven(vs) == vs

\* SortedVars reversing the records given instead of sorting them
SortedVarsReversed(vs) == [n \in 1..Len(vs) |-> vs[Len(vs) + 1 - n]]

\* [...variables].sort((a, b) => b.startIndex - a.startIndex)
SortedVars(vs) == SortDescending(vs, Len(vs))

\* the for-loop over sortedVars
RECURSIVE ApplyEdits(_, _, _)
ApplyEdits(text, sorted, edits) ==
    IF sorted = <<>> THEN text
    ELSE LET v == Head(sorted)
             before == Slice(text, 0, v.startIndex)
             after == Slice(text, v.endIndex, Len(text))
         IN  ApplyEdits(IF ShouldPatch(v, edits)
                        THEN before \o EditText(edits, v.id) \o after
                        ELSE text,
                        Tail(sorted), edits)

patchCss(originalCss, vs, edits) ==
    ApplyEdits(originalCss, SortedVars(vs), edits)

\* InitialValues with the values trimmed, as they are displayed
InitialValuesTrimmed(vs) ==
    [ id \in { vs[n].id : n \in 1..Len(vs) } |->
        LET last == CHOOSE n \in 1..Len(vs) :
                        /\ vs[n].id = id
                        /\ \A m \in 1..Len(vs) : vs[m].id = id => m <= n
        IN  Trim(vs[last].value) ]

\* App.tsx: the edits built on load and on reset, every id with its
\* original value (a later record with the same id overwrites)
InitialValues(vs) ==
    [ id \in { vs[n].id : n \in 1..Len(vs) } |->
        LET last == CHOOSE n \in 1..Len(vs) :
                        /\ vs[n].id = id
                        /\ \A m \in 1..Len(vs) : vs[m].id = id => m <= n
        IN  vs[last].value ]

-----------------------------------------------------------------------------
(* The checked texts.  Three families, each the concatenations of a       *)
(* bounded number of fragments: lexical fragments (any order of braces,    *)
(* quotes, comment markers, candidates), rule pieces (preludes, whole      *)
(* declarations, closers) and values (one candidate followed by value      *)
(* fragments).                                                             *)

Frags == { <<"{">>, <<"}">>, <<";">>, <<"-", "-", "a", ":">>, <<"\"">>,
           <<"\\">>, <<"/", "*">>, <<"*", "/">> }

Pieces == { <<"a", "{">>, <<" ", "b", " ", "{">>, <<"}">>,
            <<"-", "-", "a", ":", "1", ";">>,
            <<"-", "-", "b", ":", " ", "1">>,
            <<"-", "-", "a", " ", "b", ":", "1", ";">>,
            <<"/", "*">>, <<"*", "/">> }

ValueFrags == { <<"(">>, <<")">>, <<";">>, <<"}">>, <<"\"">>, <<"'">>,
                <<"\\">>, <<"/", "*">> }

ValuePrefix == <<"a", "{", "-", "-", "a", ":">>

RECURSIVE Flatten(_)
Flatten(fs) == IF fs = <<>> THEN <<>> ELSE Head(fs) \o Flatten(Tail(fs))

FragTexts(F, n) == { Flatten(fs) : fs \in UNION { [1..m -> F] : m \in 0..n } }

Texts ==
    FragTexts(Frags, MaxFrags)
    \cup FragTexts(Pieces, MaxPieces)
    \cup { ValuePrefix \o v : v \in FragTexts(ValueFrags, MaxValueFrags) }

-----------------------------------------------------------------------------
(* parseCssVariables, one iteration of the outer loop per action.          *)

char == At(css, i)
nextChar == At(css, i + 1)

InLoop == pc = "scan" /\ i < Len(css)

ScanInit ==
    /\ i = 0
    /\ currentSelector = <<>>
    /\ braceDepth = 0
    /\ inComment = FALSE
    /\ inString = Null
    /\ buffer = <<>>
    /\ variables = <<>>
    /\ candidates = <<>>
    /\ pc = "scan"
    /\ modifiedValues = EmptyRecord
    /\ patched = <<>>

Init ==
    /\ css \in Texts
    /\ ScanInit

\* OpensComment without the test of inString
OpensCommentInString == ~inComment /\ char = "/" /\ nextChar = "*"

OpensComment == inString = Null /\ ~inComment /\ char = "/" /\ nextChar = "*"

ClosesComment == inComment /\ char = "*" /\ nextChar = "/"

OpensString == inString = Null /\ char \in Quotes

ClosesString == inString = char /\ At(css, i - 1) # "\\"

CommentOpen ==
    /\ InLoop
    /\ OpensComment
    /\ inComment' = TRUE
    /\ i' = i + 2
    /\ UNCHANGED <<candidates, modifiedValues, patched, css, currentSelector, braceDepth, inString, buffer,
                   variables, pc>>

CommentClose ==
    /\ InLoop
    /\ ClosesComment
    /\ inComment' = FALSE
    /\ i' = i + 2
    /\ UNCHANGED <<candidates, modifiedValues, patched, css, currentSelector, braceDepth, inString, buffer,
                   variables, pc>>

CommentSkip ==
    /\ InLoop
    /\ inComment
    /\ ~ClosesComment
    /\ i' = i + 1
    /\ UNCHANGED <<candidates, modifiedValues, patched, css, currentSelector, braceDepth, inComment, inString,
                   buffer, variables, pc>>

StringOpen ==
    /\ InLoop
    /\ ~inComment /\ ~OpensComment
    /\ OpensString
    /\ inString' = char
    /\ i' = i + 1
    /\ UNCHANGED <<candidates, modifiedValues, patched, css, currentSelector, braceDepth, inComment, buffer,
                   variables, pc>>

StringClose ==
    /\ InLoop
    /\ ~inComment /\ ~OpensComment
    /\ ~OpensString
    /\ ClosesString
    /\ inString' = Null
    /\ i' = i + 1
    /\ UNCHANGED <<candidates, modifiedValues, patched, css, currentSelector, braceDepth, inComment, buffer,
                   variables, pc>>

StringSkip ==
    /\ InLoop
    /\ ~inComment /\ ~OpensComment
    /\ inString # Null
    /\ ~ClosesString
    /\ i' = i + 1
    /\ UNCHANGED <<candidates, modifiedValues, patched, css, currentSelector, braceDepth, inComment, inString,
                   buffer, variables, pc>>

\* the iteration reaches "Handle Blocks"
Structural == InLoop /\ ~inComment /\ ~OpensComment /\ inString = Null
              /\ ~OpensString

BlockOpen ==
    /\ Structural
    /\ char = "{"
    /\ currentSelector' = IF braceDepth = 0 THEN Trim(buffer)
                          ELSE currentSelector
    /\ buffer' = <<>>
    /\ braceDepth' = braceDepth + 1
    /\ i' = i + 1
    /\ UNCHANGED <<candidates, modifiedValues, patched, css, inComment, inString, variables, pc>>

BlockClose ==
    /\ Structural
    /\ char = "}"
    /\ braceDepth' = braceDepth - 1
    /\ currentSelector' = IF braceDepth - 1 = 0 THEN <<>> ELSE currentSelector
    /\ buffer' = <<>>
    /\ i' = i + 1
    /\ UNCHANGED <<candidates, modifiedValues, patched, css, inComment, inString, variables, pc>>

\* the iteration runs the name scan: it is on a '--' in a block
SubScans == braceDepth > 0 /\ char = "-" /\ nextChar = "-"

\* Detects without the test of the nesting depth
DetectsAtAnyDepth ==
    /\ Structural
    /\ char \notin {"{", "}"}
    /\ char = "-" /\ nextChar = "-"
    /\ IsVariable(css, i)

\* the iteration pushes a variable
Detects ==
    /\ Structural
    /\ char \notin {"{", "}"}
    /\ braceDepth > 0
    /\ char = "-" /\ nextChar = "-"
    /\ IsVariable(css, i)

Declaration ==
    /\ Detects
    /\ variables' = Push(variables, NewVariable(css, i, currentSelector))
    /\ candidates' = Append(candidates, i)
    /\ i' = NextIndex(css, i)
    /\ UNCHANGED <<modifiedValues, patched, css, currentSelector, braceDepth, inComment, inString,
                   buffer, pc>>

Other ==
    /\ Structural
    /\ char \notin {"{", "}"}
    /\ ~Detects
    /\ buffer' = IF braceDepth = 0 THEN Append(buffer, char) ELSE buffer
    /\ candidates' = IF SubScans THEN Append(candidates, i) ELSE candidates
    /\ i' = i + 1
    /\ UNCHANGED <<modifiedValues, patched, css, currentSelector, braceDepth, inComment, inString,
                   variables, pc>>

Return ==
    /\ pc = "scan"
    /\ i >= Len(css)
    /\ pc' = "done"
    /\ UNCHANGED <<candidates, modifiedValues, patched, css, i, currentSelector, braceDepth, inComment, inString,
                   buffer, variables>>

Next ==
    \/ CommentOpen
    \/ CommentClose
    \/ CommentSkip
    \/ StringOpen
    \/ StringClose
    \/ StringSkip
    \/ BlockOpen
    \/ BlockClose
    \/ Declaration
    \/ Other
    \/ Return

Spec == Init /\ [][Next]_vars

-----------------------------------------------------------------------------
(* patchCss applied to the result of a finished scan, under edits drawn    *)
(* from a bounded set: any subset of the ids of the scan and of one id no  *)
(* declaration has, each with any of the EditValues, and the edits the     *)
(* application builds on load.                                             *)

PatchPieces == { <<"a", "{">>, <<"}">>,
                 <<"-", "-", "a", ":", "1", ";">>,
                 <<"-", "-", "b", ":", " ", "1">>,
                 <<"/", "*">>, <<"*", "/">>, <<"\"">> }

PatchTexts == FragTexts(PatchPieces, MaxPatchPieces)

EditValues == { <<>>, <<"1">>, <<"x", "y">> }

UnknownId == "0-0"

EditMaps(vs) ==
    LET keys == { vs[n].id : n \in 1..Len(vs) } \cup {UnknownId}
    IN  UNION { [D -> EditValues] : D \in SUBSET keys }
        \cup {InitialValues(vs)}

InitPatch ==
    /\ css \in PatchTexts
    /\ ScanInit

PatchCall ==
    /\ pc = "done"
    /\ \E edits \in EditMaps(variables) :
          /\ modifiedValues' = edits
          /\ patched' = patchCss(css, variables, edits)
    /\ pc' = "patched"
    /\ UNCHANGED <<css, i, currentSelector, braceDepth, inComment, inString,
                   buffer, variables, candidates>>

NextPatch == Next \/ PatchCall

SpecPatch == InitPatch /\ [][NextPatch]_vars

\* the scan of the same texts run to its end: the loop is never suspended,
\* an iteration that can run does run
SpecRun == InitPatch /\ [][Next]_vars /\ WF_vars(Next)

-----------------------------------------------------------------------------
(* The application: a text is loaded (scanned, the edits set to the       *)
(* original values), then values are edited and the edits reset, in any    *)
(* order; after every change of state the preview is patched again.        *)

AppReady == pc \in {"loaded", "edited", "reset"}

\* the effect that follows a change of state: the preview style is the
\* patched text (nothing is done while originalCss is empty)
Preview(edits) ==
    IF css # <<>> THEN patchCss(css, variables, edits) ELSE patched

\* reader.onload, once parseCssVariables has returned
handleFileUpload ==
    /\ pc = "done"
    /\ modifiedValues' = InitialValues(variables)
    /\ patched' = Preview(modifiedValues')
    /\ pc' = "loaded"
    /\ UNCHANGED <<css, i, currentSelector, braceDepth, inComment, inString,
                   buffer, variables, candidates>>

\* updateValue(id, newValue) for the id of a scanned declaration
updateValue ==
    /\ AppReady
    /\ \E n \in 1..Len(variables), newValue \in EditValues :
          modifiedValues' =
              [ id \in DOMAIN modifiedValues \cup {variables[n].id} |->
                  IF id = variables[n].id THEN newValue
                  ELSE modifiedValues[id] ]
    /\ patched' = Preview(modifiedValues')
    /\ pc' = "edited"
    /\ UNCHANGED <<css, i, currentSelector, braceDepth, inComment, inString,
                   buffer, variables, candidates>>

handleReset ==
    /\ AppReady
    /\ modifiedValues' = InitialValues(variables)
    /\ patched' = Preview(modifiedValues')
    /\ pc' = "reset"
    /\ UNCHANGED <<css, i, currentSelector, braceDepth, inComment, inString,
                   buffer, variables, candidates>>

NextApp == Next \/ handleFileUpload \/ updateValue \/ handleReset

SpecApp == InitPatch /\ [][NextApp]_vars

-----------------------------------------------------------------------------
(* Scans of a well-formed rule that follows other regions of text: closed  *)
(* blocks that hold a candidate with an invalid name, a comment or a       *)
(* string, and closing braces outside any block.  Every such region ends   *)
(* outside any block, comment and string.                                  *)

Regions == { <<"}">>,
             <<"a", "{", "-", "-", "a", " ", "b", ":", "1", ";", "}">>,
             <<"a", "{", "-", "-", ":", "1", ";", "}">>,
             <<"a", "{", "/", "*", "}", "*", "/", "}">>,
             <<"a", "{", "\"", "}", "\"", "}">> }

\* sel{--n: v;} with sel = b, n = b, v = 1
Rule == <<"b", "{", "-", "-", "b", ":", " ", "1", ";", "}">>

InitDegrade ==
    /\ css \in { r \o Rule : r \in FragTexts(Regions, MaxRegions) }
    /\ ScanInit

SpecDegrade == InitDegrade /\ [][Next]_vars

(* Scans of one top-level block with a declaration, opened by a prelude    *)
(* built from selector text, closed comments and closed quoted strings,    *)
(* at the start of the text or after a closed block.                       *)

PreludeFrags == { <<"a">>, <<" ">>, <<"/", "*", "b", "*", "/">>,
                  <<"\"", "b", "\"">>, <<"'", "b", "'">> }

ClosedBlock == <<"b", "{", "}">>

Block == <<"{", "-", "-", "a", ":", "1", ";", "}">>

InitSelector ==
    /\ css \in { before \o prelude \o Block :
                    before \in {<<>>, ClosedBlock},
                    prelude \in FragTexts(PreludeFrags, MaxPreludeFrags) }
    /\ ScanInit

SpecSelector == InitSelector /\ [][Next]_vars

(* Scans of texts built from block openers with a prelude, closers, a     *)
(* declaration, comment markers and quotes, in any order: nested blocks,   *)
(* blocks that follow closed blocks, closers outside any block.            *)

NestPieces == { <<"a", "{">>, <<"b", "{">>, <<"}">>,
                <<"-", "-", "a", ":", "1", ";">>,
                <<"/", "*">>, <<"*", "/">>, <<"\"">> }

InitNested ==
    /\ css \in FragTexts(NestPieces, MaxNestPieces)
    /\ ScanInit

SpecNested == InitNested /\ [][Next]_vars

(* Scans of one block whose content is built from name text, spaces,      *)
(* a colon with a value, quotes, comment markers and closers: candidates  *)
(* that follow other text, names with spaces inside and around them.      *)

NameFrags == { <<"-", "-", "a">>, <<" ">>, <<"a", "_", "1">>,
               <<":", "1", ";">>, <<"\"">>, <<"/", "*">>, <<"*", "/">>,
               <<"}">> }

NamePrefix == <<"a", "{">>

InitNames ==
    /\ css \in { NamePrefix \o t : t \in FragTexts(NameFrags, MaxNameFrags) }
    /\ ScanInit

SpecNames == InitNames /\ [][Next]_vars

(* Scans of texts built from whole blocks whose declaration is ended by   *)
(* the closer of the block, block openers, closers, a declaration ended   *)
(* by ';', comment markers and quotes.                                    *)

HandOffPieces == { <<"a", "{", "-", "-", "a", ":", "1", "}">>,
                   <<"b", "{", "-", "-", "b", ":", "2", "}">>,
                   <<"a", "{">>, <<"}">>,
                   <<"-", "-", "a", ":", "1", ";">>,
                   <<"/", "*">>, <<"*", "/">>, <<"\"">> }

InitHandOff ==
    /\ css \in FragTexts(HandOffPieces, MaxHandOffPieces)
    /\ ScanInit

SpecHandOff == InitHandOff /\ [][Next]_vars

-----------------------------------------------------------------------------
(* Properties of the scan.                                                 *)

VarIndices == 1..Len(variables)

\* C1: in every state of a scan, each pushed declaration d has
\* css.slice(d.startIndex, d.endIndex) = d.value, d.startIndex is the
\* position just after a colon and d.endIndex is the position of a ';' or
\* a '}'.
ValueSpanCorrect ==
    \A n \in VarIndices :
        LET d == variables[n]
        IN  /\ Slice(css, d.startIndex, d.endIndex) = d.value
            /\ At(css, d.startIndex - 1) = ":"
            /\ At(css, d.endIndex) \in {";", "}"}

\* a declaration whose raw value starts with whitespace and is not empty
\* after it has been pushed
ValueSpanWitness ==
    \E n \in VarIndices :
        /\ Len(variables[n].value) >= 2
        /\ Head(variables[n].value) \in Whitespace

\* C4: every pushed declaration has startIndex <= endIndex, and of two
\* declarations of one scan the later one starts strictly after the
\* terminator position (endIndex) of the earlier one.
SpansDisjoint ==
    /\ \A n \in VarIndices : variables[n].startIndex <= variables[n].endIndex
    /\ \A m, n \in VarIndices :
          m < n => variables[n].startIndex > variables[m].endIndex

\* two declarations pushed by one scan, the first with a non-empty value
SpansDisjointWitness ==
    /\ Len(variables) >= 2
    /\ variables[1].startIndex < variables[1].endIndex

\* C9: no two declarations pushed by one scan have the same id.
IdsUnique ==
    \A m, n \in VarIndices : m # n => variables[m].id # variables[n].id

\* two declarations with the same name and the same value pushed by one
\* scan
IdsUniqueWitness ==
    \E m, n \in VarIndices :
        /\ m # n
        /\ variables[m].name = variables[n].name
        /\ variables[m].value = variables[n].value

\* C10: the pushed declarations are strictly ascending in startIndex.
OrderedByStart ==
    \A n \in VarIndices :
        n > 1 => variables[n - 1].startIndex < variables[n].startIndex

\* a finished scan that pushed three declarations
OrderedByStartWitness == pc = "done" /\ Len(variables) >= 3

\* the string mode in which position k is read when the characters from
\* position from on are read starting outside a string: a quote that is not
\* immediately preceded by a backslash opens a string when none is open and
\* closes the open one when it is the quote that opened it
RECURSIVE StringModeAt(_, _, _)
StringModeAt(s, from, k) ==
    IF k <= from THEN Null
    ELSE LET before == StringModeAt(s, from, k - 1)
             c == At(s, k - 1)
         IN  IF c \in Quotes /\ At(s, k - 2) # "\\"
             THEN IF before = Null THEN c
                  ELSE IF before = c THEN Null
                  ELSE before
             ELSE before

\* the positions in from..k-1 that hold the character c outside a string
UnquotedAt(s, from, k, c) ==
    { p \in from..(k - 1) : At(s, p) = c /\ StringModeAt(s, from, p) = Null }

\* unquoted '(' minus unquoted ')' between from and k
ParenDepthAt(s, from, k) ==
    Cardinality(UnquotedAt(s, from, k, "("))
    - Cardinality(UnquotedAt(s, from, k, ")"))

\* position k holds a ';' or '}' outside string mode at parenthesis depth 0
Terminates(s, from, k) ==
    /\ At(s, k) \in {";", "}"}
    /\ StringModeAt(s, from, k) = Null
    /\ ParenDepthAt(s, from, k) = 0

OuterPassImmune ==
    [][ (pc = "scan" /\ (inComment \/ inString # Null))
        => /\ braceDepth' = braceDepth
           /\ variables' = variables
           /\ currentSelector' = currentSelector
           /\ (inString # Null => ~inComment') ]_vars

\* inside a string in a block, the outer loop is on a comment opener
OuterPassImmuneWitness ==
    /\ pc = "scan"
    /\ inString # Null
    /\ braceDepth > 0
    /\ char = "/" /\ nextChar = "*"

\* the declaration of Rule, for a text that ends with Rule
RuleStart == Len(css) - Len(Rule)

RuleVariable ==
    [ id |-> MakeId(RuleStart + 2, RuleStart + 6),
      name |-> <<"-", "-", "b">>,
      value |-> <<" ", "1">>,
      startIndex |-> RuleStart + 6,
      endIndex |-> RuleStart + 8,
      selector |-> <<"b">> ]

\* C5: a scan of a text in which a well-formed top-level rule follows
\* regions with an invalid candidate name or an unmatched '}' returns the
\* declaration of that rule, with its name, value, span and selector.
LaterRuleStillYields ==
    pc = "done" => \E n \in VarIndices : variables[n] = RuleVariable

\* s without its block comments (s holds no comment marker inside a string)
RECURSIVE StripComments(_, _)
StripComments(s, inside) ==
    IF s = <<>> THEN <<>>
    ELSE IF ~inside /\ Len(s) >= 2 /\ s[1] = "/" /\ s[2] = "*"
         THEN StripComments(SubSeq(s, 3, Len(s)), TRUE)
    ELSE IF inside /\ Len(s) >= 2 /\ s[1] = "*" /\ s[2] = "/"
         THEN StripComments(SubSeq(s, 3, Len(s)), FALSE)
    ELSE IF inside THEN StripComments(Tail(s), inside)
    ELSE <<Head(s)>> \o StripComments(Tail(s), inside)

\* for a text that ends with Block: the source text between the end of
\* the previous top-level block (or the start) and the '{' of Block,
\* without its comments, trimmed
PreludeText ==
    LET from == IF Slice(css, 0, Len(ClosedBlock)) = ClosedBlock
                THEN Len(ClosedBlock) ELSE 0
    IN  Trim(StripComments(Slice(css, from, Len(css) - Len(Block)), FALSE))

\* C6: the selector of a declaration inside a top-level block is the
\* trimmed source text of the prelude that opened the block, block
\* comments removed, quoted strings included.
SelectorIsPreludeText ==
    \A n \in VarIndices :
        PreludeText # <<>> => variables[n].selector = PreludeText

\* the outer loop is on a '--' outside comments and strings
AtCandidate == Structural /\ char = "-" /\ nextChar = "-"

\* C11: a declaration is pushed only by an iteration that visits its
\* candidate position with braceDepth > 0; an iteration that visits a
\* '--' with braceDepth <= 0, outside any block, pushes nothing.
DetectionOnlyInsideBlock ==
    [][ /\ (variables' # variables => braceDepth > 0)
        /\ ((AtCandidate /\ braceDepth <= 0) => variables' = variables) ]_vars

\* a finished scan of a text that opens with a terminated, well-named
\* declaration outside any block and holds another one inside a block: only
\* the second was pushed
DetectionOnlyInsideBlockWitness ==
    /\ pc = "done"
    /\ At(css, 0) = "-" /\ At(css, 1) = "-"
    /\ IsVariable(css, 0)
    /\ Len(variables) = 1
    /\ variables[1].startIndex > ValueEndIndex(css, 0)

\* the first position from at on that holds ':', ';' or '}' outside string
\* mode, when it holds a ':'; -1 when there is none or it holds ';' or '}'
FirstColon(s, at) ==
    LET stops == { k \in at..(Len(s) - 1) :
                     /\ At(s, k) \in {":", ";", "}"}
                     /\ StringModeAt(s, at, k) = Null }
        first == CHOOSE k \in stops : \A m \in stops : k <= m
    IN  IF stops # {} /\ At(s, first) = ":" THEN first ELSE -1

\* no position after the colon of the candidate at position at holds a ';'
\* or '}' outside string mode at parenthesis depth 0
Unterminated(s, at) ==
    /\ FirstColon(s, at) > -1
    /\ \A k \in (FirstColon(s, at) + 1)..(Len(s) - 1) :
          ~Terminates(s, FirstColon(s, at) + 1, k)

\* C12: an iteration on a candidate in a block whose colon is followed by
\* no ';' or '}' outside string mode at parenthesis depth 0 pushes nothing
\* and changes nothing but the cursor, which moves to the character after
\* the candidate start; the scan of `a{--b: 1` returns no declaration.
UnterminatedLeavesNoTrace ==
    [][ /\ (AtCandidate /\ braceDepth > 0 /\ Unterminated(css, i))
           => /\ i' = i + 1
              /\ UNCHANGED <<css, currentSelector, braceDepth, inComment,
                             inString, buffer, variables, pc>>
        /\ (pc' = "done" /\ css = <<"a", "{", "-", "-", "b", ":", " ", "1">>)
           => variables' = <<>> ]_vars

\* the iteration on a well-named candidate with an unterminated value has
\* just ended, in a block, with nothing pushed
UnterminatedWitness ==
    /\ pc = "scan"
    /\ i >= 1
    /\ braceDepth > 0 /\ inString = Null /\ ~inComment
    /\ At(css, i - 1) = "-" /\ At(css, i) = "-"
    /\ ColonIndex(css, i - 1) > -1
    /\ NameMatches(CandidateName(css, i - 1))
    /\ ValueEndIndex(css, i - 1) = -1
    /\ Len(Slice(css, ColonIndex(css, i - 1) + 1, Len(css))) >= 2
    /\ variables = <<>>

\* C15: every scan ends (the function returns); every iteration of the
\* outer loop leaves the cursor strictly further than it found it, also
\* the one that pushes a declaration; a name scan stops at -1 or ahead of
\* the candidate start inside the text, a value scan at -1 or past the
\* colon inside the text.
ScanTerminates ==
    /\ [][ /\ (pc = "scan" /\ pc' = "scan") => i' > i
           /\ (AtCandidate /\ braceDepth > 0)
              => /\ ColonIndex(css, i) \in {-1} \cup ((i + 2)..(Len(css) - 1))
                 /\ ColonIndex(css, i) > -1
                    => ValueEndIndex(css, i) \in
                         {-1} \cup ((ColonIndex(css, i) + 1)..(Len(css) - 1))
         ]_vars
    /\ <>(pc = "done")

\* a finished scan that pushed a declaration ended by '}', read again as
\* the closer of its block, and left a later candidate unterminated
ScanTerminatesWitness ==
    /\ pc = "done"
    /\ Len(variables) = 1
    /\ At(css, variables[1].endIndex) = "}"
    /\ braceDepth = 0
    /\ \E k \in (variables[1].endIndex + 1)..(Len(css) - 1) :
          At(css, k) = "-" /\ ColonIndex(css, k) > -1

Letters ==
    { "a", "b", "c", "d", "e", "f", "g", "h", "i", "j", "k", "l", "m", "n",
      "o", "p", "q", "r", "s", "t", "u", "v", "w", "x", "y", "z",
      "A", "B", "C", "D", "E", "F", "G", "H", "I", "J", "K", "L", "M", "N",
      "O", "P", "Q", "R", "S", "T", "U", "V", "W", "X", "Y", "Z" }

Digits == { "0", "1", "2", "3", "4", "5", "6", "7", "8", "9" }

\* '--' followed by one or more letters, digits, hyphens or underscores
WellFormedName(n) ==
    /\ Len(n) >= 3
    /\ SubSeq(n, 1, 2) = <<"-", "-">>
    /\ \A k \in 3..Len(n) : n[k] \in Letters \cup Digits \cup {"-", "_"}

\* the text from the candidate at position at up to its first colon
\* outside string mode, trimmed (there is such a colon)
TextBeforeColon(s, at) == Trim(Slice(s, at, FirstColon(s, at)))

\* C16: the name of a pushed declaration is the trimmed text from the
\* candidate '--' up to the first colon outside string mode and is '--'
\* followed by one or more letters, digits, hyphens or underscores; a
\* candidate with no such colon, or whose trimmed text before it holds
\* any other character (a space inside it), pushes nothing.
NameIsValidTrimmedText ==
    [][ /\ variables' # variables
           => /\ FirstColon(css, i) > -1
              /\ variables'[Len(variables')].name = TextBeforeColon(css, i)
              /\ WellFormedName(variables'[Len(variables')].name)
        /\ (AtCandidate /\ (\/ FirstColon(css, i) = -1
                             \/ ~WellFormedName(TextBeforeColon(css, i))))
           => variables' = variables ]_vars

\* a scan that passed a candidate in a block with a space inside the text
\* before its colon, pushing nothing for it, and pushed a declaration for
\* the candidate after that space
NameIsValidWitness ==
    /\ Len(variables) = 1
    /\ \E k \in 2..(variables[1].startIndex - 1) :
          /\ At(css, k) = "-" /\ At(css, k + 1) = "-" /\ At(css, k - 1) # "-"
          /\ FirstColon(css, k) > -1
          /\ ~WellFormedName(TextBeforeColon(css, k))

\* the positions the name scan started at position at reads: up to its
\* colon, or up to the ';' or '}' outside string mode that stops it, or up
\* to the end of the text
NameReads(s, at) ==
    LET stops == { k \in at..(Len(s) - 1) :
                     /\ At(s, k) \in {":", ";", "}"}
                     /\ StringModeAt(s, at, k) = Null }
    IN  { p \in at..(Len(s) - 1) : \A k \in stops : p <= k }

\* the positions the value scan of the candidate at position at reads, if
\* the candidate has a colon and a valid name: from after the colon up to
\* the terminator, or up to the end of the text
ValueReads(s, at) ==
    IF ColonIndex(s, at) > -1 /\ NameMatches(CandidateName(s, at))
    THEN { p \in (ColonIndex(s, at) + 1)..(Len(s) - 1) :
             ValueEndIndex(s, at) > -1 => p <= ValueEndIndex(s, at) }
    ELSE {}

\* C17: over one scan, every position is read by at most one name scan and
\* by at most one value scan, and every candidate at which the sub-scans
\* were run produced a declaration.
BoundedVisits ==
    /\ Len(candidates) = Len(variables)
    /\ \A p \in 0..(Len(css) - 1) :
          /\ Cardinality({ n \in 1..Len(candidates) :
                             p \in NameReads(css, candidates[n]) }) <= 1
          /\ Cardinality({ n \in 1..Len(candidates) :
                             p \in ValueReads(css, candidates[n]) }) <= 1

\* C18: the candidate '--' of every pushed declaration is immediately
\* preceded by '{', ';' or whitespace, or by the end of a comment; a '--'
\* that follows identifier text in a block pushes nothing.
DetectionOnlyAtPropertyStart ==
    [][ variables' # variables
        => \/ At(css, i - 1) \in {"{", ";"} \cup Whitespace
           \/ (At(css, i - 2) = "*" /\ At(css, i - 1) = "/") ]_vars

\* C19: an iteration of the outer loop outside comments leaves the string
\* mode that the rule of the name scan and the value scan gives for the
\* same character from the same mode: a quote toggles the mode exactly
\* when it is not immediately preceded by a backslash, opening when no
\* string is open and closing when it is the quote that opened it.
StringRuleUniform ==
    [][ (InLoop /\ ~inComment /\ ~OpensComment)
        => inString' = SubScanString(css, i, inString) ]_vars

\* C20: braceDepth is never negative.
DepthNeverNegative == braceDepth >= 0

\* the declaration pushed last
LastVariable == variables[Len(variables)]

\* C21: the iteration that pushes a declaration ended by '}' leaves the
\* cursor on that '}', outside comments and strings, and the next
\* iteration closes a block there, decrementing braceDepth; the one that
\* pushes a declaration ended by ';' leaves the cursor after the ';'; both
\* leave braceDepth, inComment and inString alone.  The scan of
\* `a{--a:1}b{--b:2}` returns two declarations with selectors a and b.
TerminatorHandOff ==
    [][ /\ variables' # variables
           => /\ i' = IF At(css, LastVariable'.endIndex) = "}"
                      THEN LastVariable'.endIndex
                      ELSE LastVariable'.endIndex + 1
              /\ UNCHANGED <<braceDepth, inComment, inString>>
        /\ (pc = "scan" /\ variables # <<>> /\ i = LastVariable.endIndex)
           => /\ char = "}"
              /\ braceDepth' = braceDepth - 1
              /\ i' = i + 1
        /\ (pc' = "done" /\ css = <<"a", "{", "-", "-", "a", ":", "1", "}",
                                     "b", "{", "-", "-", "b", ":", "2", "}">>)
           => /\ Len(variables') = 2
              /\ variables'[1].selector = <<"a">>
              /\ variables'[2].selector = <<"b">> ]_vars

\* a finished scan that pushed two declarations ended by '}' in two
\* top-level blocks, each with the selector of its own block
TerminatorHandOffWitness ==
    /\ pc = "done"
    /\ Len(variables) = 2
    /\ \A n \in 1..2 : At(css, variables[n].endIndex) = "}"
    /\ variables[1].selector # variables[2].selector
    /\ braceDepth = 0

\* unquoted '(' minus unquoted ')' between from and k, for a counter
\* that an unmatched ')' leaves at 0
RECURSIVE FlooredParenDepthAt(_, _, _)
FlooredParenDepthAt(s, from, k) ==
    IF k <= from THEN 0
    ELSE LET before == FlooredParenDepthAt(s, from, k - 1)
             c == At(s, k - 1)
             quoted == StringModeAt(s, from, k) # Null
         IN  IF ~quoted /\ c = "(" THEN before + 1
             ELSE IF ~quoted /\ c = ")" /\ before > 0 THEN before - 1
             ELSE before

\* the positions after the colon of the candidate at position at that hold
\* a ';' or '}' outside string mode and outside matched parentheses
FlooredTerminators(s, at) ==
    { k \in (ColonIndex(s, at) + 1)..(Len(s) - 1) :
        /\ At(s, k) \in {";", "}"}
        /\ StringModeAt(s, ColonIndex(s, at) + 1, k) = Null
        /\ FlooredParenDepthAt(s, ColonIndex(s, at) + 1, k) = 0 }

\* C22: in the value scan of every candidate in a block that has a colon
\* and a valid name, tempParenDepth never goes below 0, and the value ends
\* at the first ';' or '}' outside string mode and outside matched
\* parentheses, whatever unmatched ')' precede it.
ParenDepthNeverNegative ==
    [][ (Structural /\ SubScans /\ ColonIndex(css, i) > -1
         /\ NameMatches(CandidateName(css, i)))
        => /\ LowestParenDepth(css, ColonIndex(css, i) + 1, Null, 0) >= 0
           /\ FlooredTerminators(css, i) # {}
              => /\ variables' # variables
                 /\ \A k \in FlooredTerminators(css, i) :
                       variables'[Len(variables')].endIndex <= k ]_vars

Global == <<"G", "l", "o", "b", "a", "l">>

\* the blocks that enclose position p of the text s, read from position k
\* in lexical mode mode (Null, a quote, or "comment"): how many blocks are
\* open at p (a '}' outside any block closes nothing), the prelude of the
\* outermost of them (the text since the last '{' or '}' outside any
\* block, without comments and strings, trimmed) and whether a block was
\* opened inside it before p
RECURSIVE Enclosing(_, _, _, _, _)
Enclosing(s, p, k, mode, e) ==
    IF k >= p THEN e
    ELSE LET c == At(s, k)
             n == At(s, k + 1)
         IN  IF mode = "comment"
             THEN IF c = "*" /\ n = "/" THEN Enclosing(s, p, k + 2, Null, e)
                  ELSE Enclosing(s, p, k + 1, mode, e)
             ELSE IF mode # Null
             THEN Enclosing(s, p, k + 1,
                            IF c = mode /\ At(s, k - 1) # "\\" THEN Null
                            ELSE mode, e)
             ELSE IF c = "/" /\ n = "*"
             THEN Enclosing(s, p, k + 2, "comment", e)
             ELSE IF c \in Quotes THEN Enclosing(s, p, k + 1, c, e)
             ELSE IF c = "{"
             THEN Enclosing(s, p, k + 1, Null,
                    [ depth |-> e.depth + 1,
                      text |-> <<>>,
                      outer |-> IF e.depth = 0 THEN Trim(e.text) ELSE e.outer,
                      nested |-> e.depth >= 1 ])
             ELSE IF c = "}"
             THEN Enclosing(s, p, k + 1, Null,
                    [ depth |-> IF e.depth > 0 THEN e.depth - 1 ELSE 0,
                      text |-> <<>>,
                      outer |-> IF e.depth <= 1 THEN <<>> ELSE e.outer,
                      nested |-> e.depth > 1 /\ e.nested ])
             ELSE Enclosing(s, p, k + 1, Null,
                    [ e EXCEPT !.text = IF e.depth = 0 THEN Append(e.text, c)
                                        ELSE e.text ])

EnclosingAt(s, p) ==
    Enclosing(s, p, 0, Null,
              [depth |-> 0, text |-> <<>>, outer |-> <<>>, nested |-> FALSE])

\* C13: a declaration pushed from inside a nested block, or from the
\* outermost block after a block nested in it has closed, carries as
\* selector the prelude of the outermost block that encloses it (Global
\* when that prelude is empty), never the prelude of an inner block.
NestedCarryOutermostPrelude ==
    [][ (variables' # variables /\ EnclosingAt(css, i).nested)
        => variables'[Len(variables')].selector
           = (IF EnclosingAt(css, i).outer = <<>> THEN Global
              ELSE EnclosingAt(css, i).outer) ]_vars

\* C23: the selector of a pushed declaration is never the empty text; it
\* is Global only if no block encloses the declaration; inside a block
\* opened by a non-empty prelude it is that prelude and not Global.
SentinelSelector ==
    \A n \in VarIndices :
        LET d == variables[n]
        IN  /\ d.selector # <<>>
            /\ d.selector = Global
               => EnclosingAt(css, d.startIndex).depth = 0
            /\ (EnclosingAt(css, d.startIndex).depth > 0 /\ PreludeText # <<>>)
               => d.selector = PreludeText /\ d.selector # Global

-----------------------------------------------------------------------------
(* Properties of patchCss.                                                 *)

\* the declaration d is edited: the edits hold its id with a text that
\* differs from its value
IsEdited(d, edits) == d.id \in DOMAIN edits /\ edits[d.id] # d.value

\* the text s from position pos on, with the span of every edited
\* declaration among vs[n], vs[n+1], ... replaced by its edit and every
\* other character kept
RECURSIVE ReplaceSpans(_, _, _, _, _)
ReplaceSpans(s, vs, edits, n, pos) ==
    IF n > Len(vs) THEN Slice(s, pos, Len(s))
    ELSE LET d == vs[n]
         IN  Slice(s, pos, d.startIndex)
             \o (IF IsEdited(d, edits) THEN edits[d.id]
                 ELSE Slice(s, d.startIndex, d.endIndex))
             \o ReplaceSpans(s, vs, edits, n + 1, d.endIndex)

\* C2: the text patchCss returns for a scanned text and any edits is the
\* text with the span of exactly the edited declarations replaced by
\* their edits, all at once; every other character, the values of the
\* unedited declarations included, is kept in place, and a key of the
\* edits that is no declaration's id changes nothing.
PatchChangesOnlyEditedSpans ==
    pc = "patched" => patched = ReplaceSpans(css, variables, modifiedValues, 1, 0)

\* patchCss applied with two declarations edited to texts of another
\* length, a third left alone, and an unknown key in the edits
PatchWitness ==
    /\ pc = "patched"
    /\ UnknownId \in DOMAIN modifiedValues
    /\ Len(variables) >= 3
    /\ \A n \in 1..2 :
          /\ IsEdited(variables[n], modifiedValues)
          /\ Len(modifiedValues[variables[n].id]) # Len(variables[n].value)
    /\ ~IsEdited(variables[3], modifiedValues)

\* C3: patchCss under the empty edits, and under the edits that give
\* every declaration id its own original value, returns the text
\* unchanged.
RoundTrip ==
    (pc = "patched"
        /\ modifiedValues \in {EmptyRecord, InitialValues(variables)})
    => patched = css

\* patchCss applied under the empty edits to a text with two declarations
RoundTripWitness ==
    /\ pc = "patched"
    /\ Len(variables) >= 2
    /\ modifiedValues = EmptyRecord

\* patchCss applied under the edits built on load to a text with two
\* declarations
RoundTripLoadWitness ==
    /\ pc = "patched"
    /\ Len(variables) >= 2
    /\ modifiedValues = InitialValues(variables)

\* the permutations of 1..n
Orders(n) ==
    { f \in [1..n -> 1..n] : \A a, b \in 1..n : f[a] = f[b] => a = b }

\* C14: for the declarations of one scan and any edits, patchCss returns
\* the same text whatever the order in which the declarations are passed.
PatchOrderIndependent ==
    pc = "patched"
    => \A f \in Orders(Len(variables)) :
          patchCss(css, [n \in VarIndices |-> variables[f[n]]], modifiedValues)
          = patched

\* patchCss applied with three declarations, the first two edited to
\* texts of another length
PatchOrderWitness ==
    /\ pc = "patched"
    /\ Len(variables) = 3
    /\ \A n \in 1..2 :
          /\ IsEdited(variables[n], modifiedValues)
          /\ Len(modifiedValues[variables[n].id]) > Len(variables[n].value)

\* C24: once a text is loaded, after every updateValue and handleReset
\* the edits hold an entry for the id of every scanned declaration, and
\* these events change neither the declarations nor the original text;
\* just after handleReset every entry is the original value of its
\* declaration and patchCss(originalCss, variables, modifiedValues) is the
\* original text.
EditOverlayAndReset ==
    [][ /\ (pc' \in {"loaded", "edited", "reset"})
           => \A n \in 1..Len(variables') :
                 variables'[n].id \in DOMAIN modifiedValues'
        /\ AppReady => (variables' = variables /\ css' = css)
        /\ pc' = "reset"
           => /\ \A n \in 1..Len(variables') :
                    modifiedValues'[variables'[n].id] = variables'[n].value
              /\ patchCss(css', variables', modifiedValues') = css'
              /\ css # <<>> => patched' = css' ]_vars

\* handleReset has just run on a text with two declarations, one of them
\* with a value that starts with whitespace: the edits are the original
\* values and the preview is the original text
EditOverlayWitness ==
    /\ pc = "reset"
    /\ Len(variables) >= 2
    /\ \E n \in VarIndices :
          variables[n].value # <<>> /\ Head(variables[n].value) \in Whitespace
    /\ patched = css
    /\ modifiedValues = InitialValues(variables)

=============================================================================
